---- MODULE Spec2Model ----
(***************************************************************************)
(* Model of senml/senml.py: SenMLMeasurement (base extraction, base        *)
(* update, own-field parsing, absolutization, JSON projection) and         *)
(* SenMLDocument (from_json loop, version gate, time ordering, to_json).   *)
(*                                                                         *)
(* Python values are tagged records: None, numbers, strings (sequences of  *)
(* one-character strings), booleans, JSON arrays and bytes.  A JSON object *)
(* is a function from the SenML keys to values, with Missing for a key the *)
(* object does not have (a key holding JSON null holds None).  Numbers are *)
(* integers: Python's int and float compare equal on them, so the          *)
(* int -> float widening of 'v' does not change the modelled value.        *)
(***************************************************************************)
EXTENDS Integers, Sequences, FiniteSets, TLC

VARIABLES json_data, base, measurements, version_set, now, pc, err, doc, out,
          m_self, m_base, m_ret

vars == <<json_data, base, measurements, version_set, now, pc, err, doc, out,
          m_self, m_base, m_ret>>

(* ------------------------------ bounds --------------------------------- *)

MaxRecords == 2

MaxTicks == 1

Clock0 == 1700000000

(* ------------------------------ values --------------------------------- *)

None == [k |-> "none"]

Missing == [k |-> "missing"]

Num(n) == [k |-> "num", n |-> n]

Str(s) == [k |-> "str", s |-> s]

Bool(b) == [k |-> "bool", b |-> b]

List(l) == [k |-> "list", l |-> l]

Bytes(l) == [k |-> "bytes", l |-> l]

Raise(e) == [k |-> "raise", e |-> e]

IsRaise(v) == "k" \in DOMAIN v /\ v.k = "raise"

Keys == {"n", "t", "u", "v", "s", "ut", "vs", "vb", "vd",
         "bn", "bt", "bu", "bv", "bs", "bver"}

EmptyRecord == [key \in Keys |-> Missing]

\* dict.get(key, None)
Get(data, key) == IF data[key] = Missing THEN None ELSE data[key]

\* key in data
HasKey(data, key) == data[key] # Missing

\* Python truthiness of a value
Truthy(v) ==
    CASE v.k = "none" -> FALSE
      [] v.k = "num" -> v.n # 0
      [] v.k = "str" -> v.s # <<>>
      [] v.k = "bool" -> v.b
      [] v.k = "bytes" -> v.l # <<>>
      [] v.k = "list" -> v.l # <<>>
      [] OTHER -> TRUE

\* Python's  a or b
Or(a, b) == IF Truthy(a) THEN a ELSE b

Digits == <<"0", "1", "2", "3", "4", "5", "6", "7", "8", "9">>

IsDigit(c) == \E d \in 1..10 : Digits[d] = c

DigitOf(c) == (CHOOSE d \in 1..10 : Digits[d] = c) - 1

RECURSIVE ParseInt(_)
ParseInt(s) ==
    IF s = <<>> THEN 0
    ELSE 10 * ParseInt(SubSeq(s, 1, Len(s) - 1)) + DigitOf(s[Len(s)])

RECURSIVE IntToStr(_)
IntToStr(n) ==
    IF n < 10 THEN <<Digits[n + 1]>>
    ELSE IntToStr(n \div 10) \o <<Digits[(n % 10) + 1]>>

\* str(v) for the values a record carries under vs / vb
PyStr(v) ==
    CASE v.k = "str" -> v.s
      [] v.k = "num" -> IntToStr(v.n)
      [] v.k = "bool" -> IF v.b THEN <<"T", "r", "u", "e">>
                          ELSE <<"F", "a", "l", "s", "e">>
      [] OTHER -> <<"N", "o", "n", "e">>

CasefoldChar(c) ==
    CASE c = "F" -> "f"
      [] c = "T" -> "t"
      [] c = "A" -> "a"
      [] c = "L" -> "l"
      [] c = "S" -> "s"
      [] c = "E" -> "e"
      [] OTHER -> c

casefold(s) == [i \in 1..Len(s) |-> CasefoldChar(s[i])]

(* ------------------------- SenMLMeasurement ---------------------------- *)

Measurement(name, time, unit, value, sum, update_time, version) ==
    [name |-> name, time |-> time, unit |-> unit, value |-> value,
     sum |-> sum, update_time |-> update_time, version |-> version]

\* numeric(val): None and numbers pass through; a string of digits becomes
\* the integer it spells; any other string makes float() raise ValueError.
numeric(val) ==
    IF val = None \/ val.k = "num" THEN val
    ELSE IF val.k = "str" /\ val.s # <<>> /\ \A i \in 1..Len(val.s) : IsDigit(val.s[i])
         THEN Num(ParseInt(val.s))
    ELSE Raise("ValueError")

\* clean_attrs over the keys time, sum, value, version (an attrs dict that
\* lacks a key gets None for it)
clean_attrs(attrs) ==
    LET t == numeric(attrs.time)
        s == numeric(attrs.sum)
        v == numeric(attrs.value)
        ver == numeric(attrs.version)
    IN  IF IsRaise(t) \/ IsRaise(s) \/ IsRaise(v) \/ IsRaise(ver)
        THEN Raise("ValueError")
        ELSE [attrs EXCEPT !.time = t, !.sum = s, !.value = v, !.version = ver]

ThresholdLe(t) == t <= 268435456

ThresholdLt(t) == t < 268435456

\* to_absolute(self, base) with the clock reading epoch_time_now
to_absolute(self, b, epoch_time_now) ==
    LET name == Str(Or(b.name, Str(<<>>)).s \o Or(self.name, Str(<<>>)).s)
        t == Or(b.time, Num(0)).n + Or(self.time, Num(0)).n
        unit == Or(self.unit, b.unit)
        sum == IF Truthy(b.sum) \/ Truthy(self.sum)
               THEN Num(Or(b.sum, Num(0)).n + Or(self.sum, Num(0)).n)
               ELSE None
        value == IF self.value.k \in {"bool", "bytes", "str"}
                 THEN self.value
                 ELSE IF Or(self.value, b.value) # None
                 THEN Num(Or(b.value, Num(0)).n + Or(self.value, Num(0)).n)
                 ELSE None
        time == IF ThresholdLt(t) THEN Num(t + epoch_time_now) ELSE Num(t)
    IN  Measurement(name, time, unit, value, sum, self.update_time, None)

\* whether to_absolute reads the clock for this pair
ReadsClock(self, b) ==
    ThresholdLt(Or(b.time, Num(0)).n + Or(self.time, Num(0)).n)

\* the version base_from_json adds to version_set, as a set of 0 or 1 values
VersionAdded(base_version) ==
    IF Truthy(base_version) THEN {base_version.n} ELSE {}

\* base_from_json(data, version_set): the base instance, or the raise
base_from_json(data) ==
    clean_attrs(Measurement(Get(data, "bn"), Get(data, "bt"), Get(data, "bu"),
                            Get(data, "bv"), Get(data, "bs"), None,
                            Get(data, "bver")))

\* a base that is replaced by each record's own base keys
ReplaceBase(b, record) ==
    clean_attrs(Measurement(Get(record, "bn"), Get(record, "bt"),
                            Get(record, "bu"), Get(record, "bv"),
                            Get(record, "bs"), None, Get(record, "bver")))

MergeField(old, new) == IF new # None THEN new ELSE old

\* update_base(base, record, version_set): the new base, or the raise
update_base(b, record) ==
    LET new_base == base_from_json(record)
    IN  IF IsRaise(new_base) THEN new_base
        ELSE IF b = None THEN new_base
        ELSE [name |-> MergeField(b.name, new_base.name),
              time |-> MergeField(b.time, new_base.time),
              unit |-> MergeField(b.unit, new_base.unit),
              value |-> MergeField(b.value, new_base.value),
              sum |-> MergeField(b.sum, new_base.sum),
              update_time |-> b.update_time,
              version |-> MergeField(b.version, new_base.version)]

BaseKeys == {"bn", "bt", "bu", "bv", "bs", "bver"}

\* is_valid(measurement, data): TRUE, FALSE, or the raise
is_valid(attrs, data) ==
    IF attrs.name = Str(<<>>) THEN Bool(FALSE)
    ELSE IF attrs.value = None
         THEN IF \E key \in BaseKeys : HasKey(data, key)
              THEN Bool(FALSE)
              ELSE Raise("Invalid SenML message")
    ELSE Bool(TRUE)

\* the value taken from the alternate encodings vs / vb / vd
AltValue(data) ==
    IF HasKey(data, "vs") THEN Str(PyStr(data["vs"]))
    ELSE IF HasKey(data, "vb")
         THEN IF casefold(PyStr(data["vb"])) = casefold(<<"f", "a", "l", "s", "e">>)
                 \/ casefold(PyStr(data["vb"])) = casefold(<<"0">>)
              THEN Bool(FALSE)
              ELSE Bool(TRUE)
    ELSE IF HasKey(data, "vd") THEN Bytes(data["vd"].l)
    ELSE None

\* from_json(data): a measurement, None (record skipped), or the raise
from_json(data) ==
    LET cleaned == clean_attrs(Measurement(Get(data, "n"), Get(data, "t"),
                                           Get(data, "u"), Get(data, "v"),
                                           Get(data, "s"), Get(data, "ut"),
                                           None))
    IN  IF IsRaise(cleaned) THEN cleaned
        ELSE LET attrs == IF cleaned.value = None
                          THEN [cleaned EXCEPT !.value = AltValue(data)]
                          ELSE cleaned
                 ok == is_valid(attrs, data)
             IN  IF IsRaise(ok) THEN ok
                 ELSE IF ok.b THEN attrs ELSE None

JsonKeys == {"n", "t", "u", "s", "ut", "bver", "vb", "vd", "vs", "v"}

\* SenMLMeasurement.to_json: the JSON object, or the raise
measurement_to_json(m) ==
    IF m.value = None /\ m.sum = None
    THEN Raise("Either a sum or a value has to be present in a record.")
    ELSE [key \in JsonKeys |->
            CASE key = "n" -> IF m.name # None THEN Str(PyStr(m.name)) ELSE Missing
              [] key = "t" -> IF m.time # None THEN numeric(m.time) ELSE Missing
              [] key = "u" -> IF m.unit # None THEN Str(PyStr(m.unit)) ELSE Missing
              [] key = "s" -> IF m.sum # None THEN numeric(m.sum) ELSE Missing
              [] key = "ut" -> IF m.update_time # None THEN numeric(m.update_time) ELSE Missing
              [] key = "bver" -> IF m.version # None THEN m.version ELSE Missing
              [] key = "vb" -> IF m.value.k = "bool" THEN m.value ELSE Missing
              [] key = "vd" -> IF m.value.k = "bytes" THEN m.value ELSE Missing
              [] key = "vs" -> IF m.value.k = "str" THEN m.value ELSE Missing
              [] key = "v" -> IF m.value.k = "num" THEN numeric(m.value) ELSE Missing]

(* --------------------------- SenMLDocument ----------------------------- *)

\* an ordering that places m before the elements of equal key
RECURSIVE InsertBeforeEqual(_, _)
InsertBeforeEqual(ordered, m) ==
    IF ordered = <<>> THEN <<m>>
    ELSE IF ordered[Len(ordered)].time.n < m.time.n
         THEN Append(ordered, m)
    ELSE Append(InsertBeforeEqual(SubSeq(ordered, 1, Len(ordered) - 1), m),
                ordered[Len(ordered)])

\* position at which sorted() places m among the already ordered prefix:
\* after every element whose key is not greater (stable)
RECURSIVE InsertByTime(_, _)
InsertByTime(ordered, m) ==
    IF ordered = <<>> THEN <<m>>
    ELSE IF ordered[Len(ordered)].time.n <= m.time.n
         THEN Append(ordered, m)
    ELSE Append(InsertByTime(SubSeq(ordered, 1, Len(ordered) - 1), m),
                ordered[Len(ordered)])

\* sorted(measurements, key=lambda x: x.time)
RECURSIVE sorted(_)
sorted(ms) ==
    IF ms = <<>> THEN <<>>
    ELSE InsertByTime(sorted(SubSeq(ms, 1, Len(ms) - 1)), ms[Len(ms)])

VersionAcceptedUpTo10(version) == version <= 10

VersionAccepted(version) == version < 10

\* the measurements list after the version gate, given the single version
StampOrReject(ms, version) ==
    IF VersionAccepted(version)
    THEN [i \in 1..Len(ms) |-> [ms[i] EXCEPT !.version = Num(version)]]
    ELSE <<>>

(* ------------------------------ inputs --------------------------------- *)

\* the JSON object holding exactly the given <<key, value>> pairs
Rec(pairs) ==
    [key \in Keys |->
        IF \E p \in pairs : p[1] = key
        THEN (CHOOSE p \in pairs : p[1] = key)[2]
        ELSE Missing]

RecName ==
    {Rec({}),
     Rec({<<"v", Num(1)>>}),
     Rec({<<"n", Str(<<>>)>>}),
     Rec({<<"n", Str(<<>>)>>, <<"v", Num(1)>>}),
     Rec({<<"n", Str(<<"x">>)>>, <<"v", Num(1)>>}),
     Rec({<<"bn", Str(<<"a">>)>>}),
     Rec({<<"bn", Str(<<"a">>)>>, <<"n", Str(<<>>)>>, <<"v", Num(1)>>}),
     Rec({<<"bn", Str(<<"a">>)>>, <<"n", Str(<<"x">>)>>, <<"v", Num(1)>>})}

RecNull ==
    {Rec({<<"bn", None>>, <<"v", Num(1)>>}),
     Rec({<<"bver", None>>, <<"bt", None>>})}

RecTime ==
    {Rec({<<"t", Num(5)>>, <<"v", Num(1)>>}),
     Rec({<<"t", Num(268435455)>>, <<"v", Num(1)>>}),
     Rec({<<"t", Num(268435456)>>, <<"v", Num(1)>>}),
     Rec({<<"bt", Num(1)>>, <<"t", Str(<<"9">>)>>, <<"v", Num(1)>>}),
     Rec({<<"bt", Num(1)>>, <<"v", Num(1)>>})}

RecValue ==
    {Rec({<<"v", Num(0)>>}),
     Rec({<<"v", Num(2)>>}),
     Rec({<<"bv", Num(0)>>}),
     Rec({<<"bv", Num(3)>>}),
     Rec({<<"bv", Num(3)>>, <<"v", Num(2)>>})}

RecSum ==
    {Rec({<<"s", Num(4)>>}),
     Rec({<<"s", Num(4)>>, <<"v", Num(1)>>}),
     Rec({<<"bs", Num(6)>>, <<"s", Num(4)>>}),
     Rec({<<"bs", Num(6)>>, <<"v", Num(1)>>})}

RecAlt ==
    {Rec({<<"vs", Str(<<"a">>)>>}),
     Rec({<<"vb", Str(<<"F", "a", "l", "s", "e">>)>>}),
     Rec({<<"vb", Num(1)>>}),
     Rec({<<"vd", List(<<1>>)>>})}

RecVer ==
    {Rec({<<"bver", Num(0)>>, <<"v", Num(1)>>}),
     Rec({<<"bver", Num(5)>>, <<"v", Num(1)>>}),
     Rec({<<"bver", Num(6)>>}),
     Rec({<<"bver", Num(10)>>, <<"v", Num(1)>>}),
     Rec({<<"bver", Str(<<"5">>)>>})}

RecUnit ==
    {Rec({<<"bu", Str(<<"m">>)>>, <<"u", Str(<<"W">>)>>, <<"ut", Num(2)>>,
          <<"v", Num(1)>>}),
     Rec({<<"bu", Str(<<"m">>)>>, <<"v", Num(1)>>})}

RecMalformed == {Rec({<<"t", Str(<<"x">>)>>, <<"v", Num(1)>>})}

Records ==
    RecName \cup RecNull \cup RecTime \cup RecValue \cup RecSum \cup RecAlt
        \cup RecVer \cup RecUnit \cup RecMalformed

(* ---------------------- SenMLDocument.from_json ------------------------ *)

Init ==
    /\ json_data = <<>>
    /\ base = None
    /\ measurements = <<>>
    /\ version_set = {}
    /\ now = Clock0
    /\ pc = "loop"
    /\ err = "none"
    /\ doc = <<>>
    /\ out = <<>>
    /\ m_self = None
    /\ m_base = None
    /\ m_ret = None

\* one iteration of the for loop over json_data; tick is 1 when the clock
\* has advanced by the time to_absolute reads it
Step(record, tick) ==
    /\ pc = "loop"
    /\ Len(json_data) < MaxRecords
    /\ json_data' = Append(json_data, record)
    /\ LET new_base == update_base(base, record)
       IN  IF IsRaise(new_base)
           THEN /\ tick = 0
                /\ pc' = "raised"
                /\ err' = new_base.e
                /\ UNCHANGED <<base, measurements, version_set, now>>
           ELSE LET measurement == from_json(record)
                IN  /\ base' = new_base
                    /\ version_set' = version_set
                            \cup VersionAdded(base_from_json(record).version)
                    /\ IF IsRaise(measurement)
                       THEN /\ tick = 0
                            /\ pc' = "raised"
                            /\ err' = measurement.e
                            /\ UNCHANGED <<measurements, now>>
                       ELSE IF measurement = None
                       THEN /\ tick = 0
                            /\ UNCHANGED <<measurements, now, pc, err>>
                       ELSE /\ IF ReadsClock(measurement, new_base)
                               THEN now + tick <= Clock0 + MaxTicks
                               ELSE tick = 0
                            /\ now' = now + tick
                            /\ measurements' = Append(measurements,
                                   to_absolute(measurement, new_base, now + tick))
                            /\ UNCHANGED <<pc, err>>
    /\ UNCHANGED <<doc, out, m_self, m_base, m_ret>>

\* the code after the loop: version gate, ordering, construction
Finish ==
    /\ pc = "loop"
    /\ IF Cardinality(version_set) > 1
       THEN /\ pc' = "raised"
            /\ err' = "Multiple base version detected"
            /\ UNCHANGED <<measurements, version_set, doc>>
       ELSE /\ pc' = "done"
            /\ err' = err
            /\ IF Cardinality(version_set) = 1
               THEN LET version == CHOOSE v \in version_set : TRUE
                    IN  /\ measurements' = StampOrReject(measurements, version)
                        /\ version_set' = {}
               ELSE UNCHANGED <<measurements, version_set>>
            /\ doc' = IF Len(measurements') > 0 THEN sorted(measurements') ELSE <<>>
    /\ UNCHANGED <<json_data, base, now, out, m_self, m_base, m_ret>>

\* SenMLDocument.to_json on the parsed document
DocToJson ==
    /\ pc = "done"
    /\ LET items == [i \in 1..Len(doc) |-> measurement_to_json(doc[i])]
       IN  IF \E i \in 1..Len(doc) : IsRaise(items[i])
           THEN /\ pc' = "raised_to_json"
                /\ err' = items[CHOOSE i \in 1..Len(doc) :
                                  /\ IsRaise(items[i])
                                  /\ \A j \in 1..(i - 1) : ~IsRaise(items[j])].e
                /\ out' = out
           ELSE /\ pc' = "serialized"
                /\ err' = err
                /\ out' = items
    /\ UNCHANGED <<json_data, base, measurements, version_set, now, doc,
                   m_self, m_base, m_ret>>

Next ==
    \/ \E record \in Records, tick \in 0..1 : Step(record, tick)
    \/ Finish
    \/ DocToJson

Spec == Init /\ [][Next]_vars

(* ------------------- SenMLMeasurement.to_absolute ---------------------- *)

AbsNames == {None, Str(<<>>), Str(<<"x">>)}

AbsTimes == {None, Num(0), Num(5), Num(268435455), Num(268435456)}

AbsBaseTimes == {None, Num(0), Num(1), Num(268435455), Num(268435456)}

AbsOwnValues ==
    {None, Num(0), Num(2), Bool(FALSE), Bool(TRUE), Str(<<>>), Str(<<"a">>),
     Bytes(<<>>), Bytes(<<1>>)}

AbsBaseValues == {None, Num(0), Num(3)}

AbsSums == {None, Num(0), Num(4)}

InitAbs ==
    /\ json_data = <<>>
    /\ base = None
    /\ measurements = <<>>
    /\ version_set = {}
    /\ now \in Clock0..(Clock0 + MaxTicks)
    /\ pc = "abs"
    /\ err = "none"
    /\ doc = <<>>
    /\ out = <<>>
    /\ m_self \in {Measurement(None, t, None, v, s, None, None) :
                      t \in AbsTimes, v \in AbsOwnValues, s \in AbsSums}
    /\ m_base \in {Measurement(None, t, None, v, None, None, None) :
                      t \in AbsBaseTimes, v \in AbsBaseValues}
    /\ m_ret = None

Absolutize ==
    /\ pc = "abs"
    /\ m_ret' = to_absolute(m_self, m_base, now)
    /\ pc' = "abs_done"
    /\ UNCHANGED <<json_data, base, measurements, version_set, now, err, doc,
                   out, m_self, m_base>>

NextAbs == Absolutize

SpecAbs == InitAbs /\ [][NextAbs]_vars

(* ------------------------------ claims --------------------------------- *)

Returned == pc \in {"done", "serialized", "raised_to_json"}

LastRecord == json_data[Len(json_data)]

\* the base versions the consumed records declare (after numeric cleanup)
DeclaredVersions ==
    {numeric(Get(json_data[i], "bver")).n :
        i \in {j \in 1..Len(json_data) : Get(json_data[j], "bver") # None}}

WithTime(ms, t) == LET has(m) == m.time = t IN SelectSeq(ms, has)

\* C1: the measurements of a returned document are in ascending order of
\* resolved time, and measurements of equal resolved time keep the order in
\* which the loop collected them.
C1_SortedStable ==
    Returned =>
        /\ Len(doc) = Len(measurements)
        /\ \A i \in 1..(Len(doc) - 1) : doc[i].time.n <= doc[i + 1].time.n
        /\ \A i \in 1..Len(measurements) :
              WithTime(doc, measurements[i].time)
                  = WithTime(measurements, measurements[i].time)

\* a returned document whose two measurements were collected in the other
\* order
C1_Witness ==
    /\ pc = "done"
    /\ Len(doc) = 2
    /\ doc[1] = measurements[2]
    /\ doc[1].time.n < doc[2].time.n

\* C2: every measurement of a returned document carries a value or a sum,
\* and to_json on a parsed document never raises.
C2_ValueOrSum ==
    /\ Returned => \A i \in 1..Len(doc) : doc[i].value # None \/ doc[i].sum # None
    /\ pc # "raised_to_json"

\* C3: when the records declare two or more distinct base versions,
\* whatever their values, from_json returns no document.
C3_ConflictRaises ==
    Cardinality(DeclaredVersions) >= 2 =>
        ~Returned

\* C4: when the records declare exactly one distinct base version v < 10,
\* every measurement of the returned document has version v.
C4_VersionStamped ==
    (Returned /\ \E v \in DeclaredVersions : DeclaredVersions = {v} /\ v < 10) =>
        \A i \in 1..Len(doc) : doc[i].version = Num(CHOOSE v \in DeclaredVersions : TRUE)

NoValueNoSumNoBase(data) ==
    /\ \A key \in {"v", "vs", "vb", "vd", "s"} : Get(data, key) = None
    /\ \A key \in BaseKeys : ~HasKey(data, key)

\* C6: parsing the record just consumed raised the invalid-record error
\* exactly when the record has no value in any encoding, no sum and no
\* base-defining key; a record with a sum and no value is resolved into a
\* measurement.
C6_InvalidExactly ==
    (Len(json_data) > 0 /\ pc \in {"loop", "raised"}) =>
        /\ (pc = "raised" /\ err = "Invalid SenML message")
              <=> NoValueNoSumNoBase(LastRecord)
        /\ (/\ Len(json_data) = 1
            /\ Get(LastRecord, "s") # None
            /\ Get(LastRecord, "n") # Str(<<>>)
            /\ \A key \in {"v", "vs", "vb", "vd"} : Get(LastRecord, key) = None)
              => (pc = "loop" /\ Len(measurements) = 1)

\* C7: no measurement of a returned document has the empty string as its
\* name, and a record with n:"" contributes no measurement.
C7_NoEmptyName ==
    /\ Returned => \A i \in 1..Len(doc) : doc[i].name # Str(<<>>)
    /\ (pc = "loop" /\ \A i \in 1..Len(json_data) : Get(json_data[i], "n") = Str(<<>>))
          => measurements = <<>>

BaseKeyOf ==
    [name |-> "bn", time |-> "bt", unit |-> "bu", value |-> "bv",
     sum |-> "bs", version |-> "bver"]

\* the value the most recent consumed record supplies for a base key
LatestSupplied(key) ==
    LET idx == {i \in 1..Len(json_data) : Get(json_data[i], key) # None}
    IN  IF idx = {} THEN None
        ELSE LET last == CHOOSE i \in idx : \A j \in idx : j <= i
             IN  IF key \in {"bn", "bu"} THEN json_data[last][key]
                 ELSE numeric(json_data[last][key])

C8_BaseIsLatest ==
    pc = "loop" =>
        IF json_data = <<>> THEN base = None
        ELSE \A f \in DOMAIN BaseKeyOf : base[f] = LatestSupplied(BaseKeyOf[f])

C8_ResolvedAgainstUpdatedBase ==
    (pc = "loop" /\ pc' = "loop" /\ Len(measurements') = Len(measurements) + 1) =>
        LET m == measurements'[Len(measurements')]
            own == json_data'[Len(json_data')]
        IN  /\ m.name = Str(Or(LatestSupplied("bn")', Str(<<>>)).s
                                \o Or(Get(own, "n"), Str(<<>>)).s)
            /\ (Get(own, "v") # None /\ LatestSupplied("bv")' # None) =>
                  m.value = Num(LatestSupplied("bv")'.n + numeric(Get(own, "v")).n)

\* C8: after any prefix of the record list each base field holds what the
\* most recent record supplying a non-null value for its base key gave (or
\* is absent), and a record's own base keys are applied before its
\* measurement is resolved.
C8_BaseAccumulation ==
    []C8_BaseIsLatest /\ [][C8_ResolvedAgainstUpdatedBase]_vars

\* a base whose name comes from the first record and whose value from the
\* second, which omits bn
C8_Witness ==
    /\ pc = "loop"
    /\ Len(json_data) = 2
    /\ Get(json_data[1], "bn") = Str(<<"a">>)
    /\ ~HasKey(json_data[2], "bn")
    /\ Get(json_data[2], "bv") = Num(3)
    /\ Get(json_data[2], "v") = Num(2)
    /\ base.name = Str(<<"a">>)
    /\ base.value = Num(3)
    /\ Len(measurements) = 1

NumOr0(v) == IF v = None THEN 0 ELSE v.n

\* C9: to_absolute returns a boolean, bytes or text own value unchanged;
\* otherwise the resolved value is base.value + self.value (absent as 0)
\* whenever either is present, a present 0 included, and absent only when
\* both are absent.
C9_ValueResolution ==
    pc = "abs_done" =>
        IF m_self.value.k \in {"bool", "bytes", "str"}
        THEN m_ret.value = m_self.value
        ELSE IF m_self.value # None \/ m_base.value # None
        THEN m_ret.value = Num(NumOr0(m_base.value) + NumOr0(m_self.value))
        ELSE m_ret.value = None

Combined == NumOr0(m_base.time) + NumOr0(m_self.time)

\* C10: with combined = base.time + self.time (absent as 0), the resolved
\* time is clock + combined when combined < 268435456 and exactly combined
\* when combined >= 268435456.
C10_EpochThreshold ==
    pc = "abs_done" =>
        /\ Combined < 268435456 => m_ret.time = Num(now + Combined)
        /\ Combined >= 268435456 => m_ret.time = Num(Combined)

\* the boundary value resolved with no clock added
C10_Witness ==
    /\ pc = "abs_done"
    /\ Combined = 268435456
    /\ m_ret.time = Num(268435456)

====
